---- MODULE Spec2Model ----
(***************************************************************************)
(* Model of src/main.py: a FastAPI application with an in-memory message   *)
(* list, two probes (EC2 instance metadata, host facts), a four-thread     *)
(* CPU burn and two registered exception handlers.                         *)
(*                                                                         *)
(* Every route is an `async def` with no await in its body and the server  *)
(* is started with one worker process, so a handler that has started holds *)
(* the event loop until it returns.  The variable `loop` names the client  *)
(* whose handler holds the loop (0: the loop is free).                     *)
(***************************************************************************)
EXTENDS Integers, Sequences, FiniteSets, TLC

\* ------------------------------------------------------------------ bounds
MaxClients == 2        \* connections a request can arrive on
MaxMessages == 2       \* create-message requests accepted in one run
LoopIterations == 3    \* iterations of the CPU loop (1000000 in the source)

\* --------------------------------------------------------- program constants
NumThreads == 4

Clients == 1..MaxClients
Threads == 1..NumThreads

\* --------------------------------------------------------------- JSON values
\* A field of a request body is a string, absent, or a value that is no string.
Missing == "<missing>"
NonString == "<non-string>"
Names == {"alice", "bob"}
Emails == {"a@example.org"}
Texts == {"hello"}
Strings == Names \cup Emails \cup Texts
Bodies == [name : Names \cup {Missing, NonString},
           email : Emails \cup {Missing, NonString},
           message : Texts \cup {Missing, NonString}]
NoBody == [name |-> Missing, email |-> Missing, message |-> Missing]

\* datetime.now().isoformat(): an opaque ISO-8601 string
Timestamps == {"2025-01-01T00:00:00"}

\* ------------------------------------------------------------- UserMessage
IsStr(v) == v \in Strings

ValidBodyNameOnly(b) == IsStr(b.name)

\* class UserMessage(BaseModel): name: str, email: str, message: str.
\* The framework builds it from the request body before create_message is
\* called and answers 422 when a field is absent or is not a string.
ValidBody(b) == IsStr(b.name) /\ IsStr(b.email) /\ IsStr(b.message)

\* ------------------------------------------------- get_instance_metadata
\* What the metadata source does during one call: whether `import requests`
\* succeeds, the status of the first response, and the index of the first of
\* the five requests.get calls that raises (0: none raises).
\* The later fetches' statuses are not looked at: an instance without a
\* public address answers the public-ipv4 fetch 404 and the body is kept.
\* Only what the call gets to see is told apart: nothing is fetched when
\* the import fails, no status is read when the first fetch raises, nothing
\* more is fetched after a non-200 first answer, and the public-ipv4 fetch
\* is the fourth.
MetaEnvs ==
  {e \in [importOk : BOOLEAN, firstStatus : {200, 404}, raisesAt : 0..5,
           publicIpStatus : {200, 404}] :
     /\ ~e.importOk => (e.raisesAt = 0 /\ e.firstStatus = 200)
     /\ e.raisesAt = 1 => e.firstStatus = 200
     /\ e.firstStatus # 200 => e.raisesAt = 0
     /\ e.publicIpStatus # 200 =>
          (e.importOk /\ e.firstStatus = 200 /\ e.raisesAt \in {0, 5})}

FieldTexts == <<"i-0abc", "us-east-1a", "t2.micro", "203.0.113.7", "10.0.0.5">>

\* requests.get(...).text of fetch k
FetchText(e, k) ==
  IF k = 4 /\ e.publicIpStatus # 200 THEN "<404 Not Found>" ELSE FieldTexts[k]

Fallback == [instance_id |-> "local-development", note |-> "Not running on EC2"]

\* The fields fetched so far when the dict literal is being built: fetch k
\* runs only when fetches 1..k-1 returned; a fetch that raises leaves the
\* try-block.  Result: <<raised, fields fetched>>.
RECURSIVE FetchFields(_, _, _)
FetchFields(e, k, got) ==
  IF k > 5 THEN <<FALSE, got>>
  ELSE IF e.raisesAt = k THEN <<TRUE, got>>
  ELSE FetchFields(e, k + 1, Append(got, FetchText(e, k)))

RecordOf(got) == [instance_id |-> got[1], availability_zone |-> got[2],
                  instance_type |-> got[3], public_ipv4 |-> got[4],
                  private_ipv4 |-> got[5]]

get_instance_metadata_partial(e) ==
  IF ~e.importOk \/ e.raisesAt = 1 \/ e.firstStatus # 200 THEN Fallback
  ELSE LET r == FetchFields(e, 2, <<FetchText(e, 1)>>)
       IN IF Len(r[2]) = 5 THEN RecordOf(r[2])
          ELSE [instance_id |-> r[2][1], note |-> "partial"]

get_instance_metadata(e) ==
  IF ~e.importOk THEN Fallback                \* ImportError, caught
  ELSE IF e.raisesAt = 1 THEN Fallback        \* first get raises, caught
  ELSE IF e.firstStatus # 200 THEN Fallback   \* falls out of the if
  ELSE LET r == FetchFields(e, 2, <<FetchText(e, 1)>>)
       IN IF r[1] THEN Fallback               \* a later get raises, caught
          ELSE RecordOf(r[2])

\* get_instance_metadata().get("instance_id", "local")
ServerId(e) == get_instance_metadata(e).instance_id

\* ------------------------------------------------------- get_system_info
\* socket.gethostbyname(socket.gethostname()) resolves or raises gaierror.
HostEnvs == {"resolves", "gaierror"}

SystemFacts == [platform |-> "Linux", hostname |-> "host-1", ip_address |-> "10.0.0.5",
                cpu_count |-> 2, memory_total |-> "3 GB", disk_usage |-> "41.0%"]

\* No try/except: a lookup that raises propagates to the caller.
get_system_info(h) ==
  IF h = "resolves" THEN [raised |-> FALSE, info |-> SystemFacts]
  ELSE [raised |-> TRUE, info |-> SystemFacts]

\* ------------------------------------------------------ exception handlers
BaseUrl == "http://server"
Url(path) == <<BaseUrl, path>>

TestErrorDetail == "This is a test error for monitoring"

\* @app.exception_handler(404) and @app.exception_handler(500)
RegisteredHandlers == {404, 500}

StatusHandlersAll == RegisteredHandlers

\* The handler registered under 500 is the server-error handler (it answers
\* exceptions no other handler took); the other integer keys answer
\* HTTPExceptions of that status.
StatusHandlers == RegisteredHandlers \ {500}

not_found_handler(path) ==
  [status |-> 404, body |-> [message |-> "Endpoint not found", path |-> Url(path)]]

internal_error_handler(path) ==
  [status |-> 500, body |-> [message |-> "Internal server error", path |-> Url(path)]]

\* An HTTPException raised while a request is handled.
HttpExceptionResponse(status, detail, path) ==
  IF status \in StatusHandlers
  THEN IF status = 404 THEN not_found_handler(path) ELSE internal_error_handler(path)
  ELSE [status |-> status, body |-> [detail |-> detail]]

\* Any other exception that leaves a handler.
UnhandledExceptionResponse(path) == internal_error_handler(path)

\* ------------------------------------------------------------ message store
NextIdZeroBased(msgs) == Len(msgs)

\* "id": len(messages) + 1
NextId(msgs) == Len(msgs) + 1

StorePrepend(msgs, rec) == <<rec>> \o msgs

\* messages.append(message_data)
StoreAppend(msgs, rec) == Append(msgs, rec)

\* ------------------------------------------------------------- CPU burn
\* for i in range(n): result += i * i
RECURSIVE SumSquaresLoop(_, _, _)
SumSquaresLoop(i, n, result) ==
  IF i >= n THEN result ELSE SumSquaresLoop(i + 1, n, result + i * i)

cpu_intensive_task(d) == [result |-> SumSquaresLoop(0, LoopIterations, 0), duration |-> d]

\* end - start of two time.time() readings
Durations == {0, 1}

\* ------------------------------------------------------------------- state
VARIABLES
  messages,   \* the module-level list
  pc,         \* pc[c]: where client c's request is
  req,        \* req[c]: the validated body of c's create-message request
  loc,        \* loc[c]: the locals of c's running handler
  loop,       \* the client whose handler holds the event loop, 0 if none
  lastResp,   \* the response sent last with the request it answers; none
              \* while a handler runs
  created     \* the records returned by create-message, in response order

vars == <<messages, pc, req, loc, loop, lastResp, created>>

NoLoc == [n |-> 0, th |-> [k \in Threads |-> "new"], results |-> <<>>, joined |-> 0]

NoResp == [op |-> "none", status |-> 0, tick |-> 0]

Init ==
  /\ messages = <<>>
  /\ pc = [c \in Clients |-> "idle"]
  /\ req = [c \in Clients |-> NoBody]
  /\ loc = [c \in Clients |-> NoLoc]
  /\ loop = 0
  /\ lastResp = NoResp
  /\ created = <<>>

\* ---------------------------------------------------------------- scheduling
CanRunThreaded(c) == TRUE

\* A handler runs when the loop is free or is already its own: no route
\* awaits, so nothing else is scheduled until it returns.
CanRun(c) == loop \in {0, c}

Tick == 1 - lastResp.tick

\* The response r to client c's request; the handler returns.
Respond(c, r) ==
  /\ lastResp' = [r EXCEPT !.tick = Tick]
  /\ pc' = [pc EXCEPT ![c] = "idle"]
  /\ req' = [req EXCEPT ![c] = NoBody]
  /\ loc' = [loc EXCEPT ![c] = NoLoc]
  /\ loop' = 0

Resp(op, status, body, request) ==
  [op |-> op, status |-> status, body |-> body, request |-> request, tick |-> 0]

\* A handler starts: it takes the loop and no response is out yet.
Begin(c, label) ==
  /\ pc' = [pc EXCEPT ![c] = label]
  /\ loop' = c
  /\ lastResp' = [NoResp EXCEPT !.tick = lastResp.tick]

InCreate(c) == pc[c] \in {"create_ready", "create_append"}

\* ------------------------------------------------------------ POST /messages
\* The body arrives and is validated; create_message is called only with a
\* UserMessage.  A body that does not validate is answered 422.
create_message_receive(c) ==
  /\ pc[c] = "idle" /\ CanRun(c)
  /\ Len(created) + Cardinality({d \in Clients : InCreate(d)}) < MaxMessages
  /\ \E b \in Bodies :
       IF ValidBody(b)
       THEN /\ pc' = [pc EXCEPT ![c] = "create_ready"]
            /\ req' = [req EXCEPT ![c] = b]
            /\ lastResp' = [NoResp EXCEPT !.tick = lastResp.tick]
            /\ UNCHANGED <<messages, loc, loop, created>>
       ELSE /\ Respond(c, Resp("create", 422, [detail |-> "validation error"], b))
            /\ UNCHANGED <<messages, created>>

\* "id": len(messages) + 1
create_message_read_len(c) ==
  /\ pc[c] = "create_ready" /\ CanRun(c)
  /\ Begin(c, "create_append")
  /\ loc' = [loc EXCEPT ![c].n = NextId(messages)]
  /\ UNCHANGED <<messages, req, created>>

\* the rest of message_data, messages.append(message_data), return
create_message_append(c) ==
  /\ pc[c] = "create_append" /\ CanRun(c)
  /\ \E ts \in Timestamps, e \in MetaEnvs :
       LET message_data == [id |-> loc[c].n, name |-> req[c].name,
                            email |-> req[c].email, message |-> req[c].message,
                            timestamp |-> ts, server_id |-> ServerId(e)]
       IN /\ messages' = StoreAppend(messages, message_data)
          /\ created' = Append(created, message_data)
          /\ Respond(c, Resp("create", 200,
                             [status |-> "success",
                              message |-> "Message created successfully",
                              data |-> message_data], req[c]))

\* ------------------------------------------------------------- GET /messages
\* "total": len(messages), "messages": messages (the list itself)
get_messages_read_total(c) ==
  /\ pc[c] = "idle" /\ CanRun(c)
  /\ Begin(c, "list_return")
  /\ loc' = [loc EXCEPT ![c].n = Len(messages)]
  /\ UNCHANGED <<messages, req, created>>

get_messages_return_drains(c) ==
  /\ pc[c] = "list_return" /\ CanRun(c)
  /\ \E e \in MetaEnvs :
       Respond(c, Resp("list", 200,
                       [total |-> loc[c].n, messages |-> messages,
                        server_id |-> ServerId(e)], NoBody))
  /\ messages' = <<>>
  /\ UNCHANGED created

\* "server_id": ..., return; the list is read when the response is encoded
get_messages_return(c) ==
  /\ pc[c] = "list_return" /\ CanRun(c)
  /\ \E e \in MetaEnvs :
       Respond(c, Resp("list", 200,
                       [total |-> loc[c].n, messages |-> messages,
                        server_id |-> ServerId(e)], NoBody))
  /\ UNCHANGED <<messages, created>>

\* --------------------------------------------------------- one-step routes
Idle(c) == pc[c] = "idle" /\ CanRun(c)

root(c) ==
  /\ Idle(c)
  /\ Respond(c, Resp("root", 200, [html |-> "AWS FastAPI Demo"], NoBody))
  /\ UNCHANGED <<messages, created>>

\* return HealthCheck(status="healthy", timestamp=..., server_info=get_system_info())
health_check(c) ==
  /\ Idle(c)
  /\ \E ts \in Timestamps, h \in HostEnvs :
       LET s == get_system_info(h)
       IN Respond(c, IF s.raised
                     THEN LET r == UnhandledExceptionResponse("/health")
                          IN Resp("health", r.status, r.body, h)
                     ELSE Resp("health", 200,
                               [status |-> "healthy", timestamp |-> ts,
                                server_info |-> s.info], h))
  /\ UNCHANGED <<messages, created>>

\* os.getenv(name, default)
EnvSettings == {[AWS_REGION |-> "unset", AWS_AVAILABILITY_ZONE |-> "unset", ENV |-> "unset"],
                [AWS_REGION |-> "us-east-1", AWS_AVAILABILITY_ZONE |-> "us-east-1a",
                 ENV |-> "production"]}

GetEnv(value, default) == IF value = "unset" THEN default ELSE value

aws_info(c) ==
  /\ Idle(c)
  /\ \E ts \in Timestamps, e \in MetaEnvs, v \in EnvSettings :
       Respond(c, Resp("aws-info", 200,
                       [timestamp |-> ts,
                        ec2_metadata |-> get_instance_metadata(e),
                        environment_variables |->
                          [AWS_REGION |-> GetEnv(v.AWS_REGION, "not-set"),
                           AWS_AVAILABILITY_ZONE |->
                             GetEnv(v.AWS_AVAILABILITY_ZONE, "not-set"),
                           ENV |-> GetEnv(v.ENV, "development")]], e))
  /\ UNCHANGED <<messages, created>>

system_info(c) ==
  /\ Idle(c)
  /\ \E ts \in Timestamps, h \in HostEnvs :
       LET s == get_system_info(h)
       IN Respond(c, IF s.raised
                     THEN LET r == UnhandledExceptionResponse("/system-info")
                          IN Resp("system-info", r.status, r.body, h)
                     ELSE Resp("system-info", 200,
                               [timestamp |-> ts, system |-> s.info,
                                process_info |-> [pid |-> 1]], h))
  /\ UNCHANGED <<messages, created>>

\* raise HTTPException(status_code=500, detail=...)
error_test(c) ==
  /\ Idle(c)
  /\ LET r == HttpExceptionResponse(500, TestErrorDetail, "/error-test")
     IN Respond(c, Resp("error-test", r.status, r.body, NoBody))
  /\ UNCHANGED <<messages, created>>

ping(c) ==
  /\ Idle(c)
  /\ \E ts \in Timestamps :
       Respond(c, Resp("ping", 200, [message |-> "pong", timestamp |-> ts], NoBody))
  /\ UNCHANGED <<messages, created>>

\* A path no route matches: the router raises HTTPException(404).
UnmatchedPaths == {"/nonexistent"}

unmatched_route(c) ==
  /\ Idle(c)
  /\ \E p \in UnmatchedPaths :
       LET r == HttpExceptionResponse(404, "Not Found", p)
       IN Respond(c, Resp("unmatched", r.status, r.body, NoBody))
  /\ UNCHANGED <<messages, created>>

\* ------------------------------------------------------------ GET /load-test
\* threads = [], results = []
load_test_start(c) ==
  /\ Idle(c)
  /\ Begin(c, "lt_spawn")
  /\ UNCHANGED <<messages, req, loc, created>>

Started(c) == {k \in Threads : loc[c].th[k] # "new"}

\* for _ in range(4): thread = Thread(...); threads.append(thread); thread.start()
load_test_spawn(c) ==
  /\ pc[c] = "lt_spawn" /\ CanRun(c)
  /\ LET k == Cardinality(Started(c)) + 1
     IN /\ loc' = [loc EXCEPT ![c].th[k] = "run"]
        /\ pc' = [pc EXCEPT ![c] = IF k = NumThreads THEN "lt_join" ELSE "lt_spawn"]
  /\ UNCHANGED <<messages, req, loop, lastResp, created>>

\* A started thread: results.append(cpu_intensive_task()).  The loop works on
\* the thread's own variables; list.append is one step under the interpreter
\* lock.
load_test_thread(c, k) ==
  /\ loc[c].th[k] = "run"
  /\ \E d \in Durations :
       loc' = [loc EXCEPT ![c].th[k] = "done",
                          ![c].results = Append(@, cpu_intensive_task(d))]
  /\ UNCHANGED <<messages, pc, req, loop, lastResp, created>>

JoinReturnsAtOnce(l, k) == TRUE

\* thread.join() returns when the thread has ended.
JoinReturns(l, k) == l.th[k] = "done"

\* for thread in threads: thread.join()
load_test_join(c) ==
  /\ pc[c] = "lt_join" /\ CanRun(c)
  /\ loc[c].joined < NumThreads
  /\ JoinReturns(loc[c], loc[c].joined + 1)
  /\ loc' = [loc EXCEPT ![c].joined = @ + 1]
  /\ UNCHANGED <<messages, pc, req, loop, lastResp, created>>

load_test_return(c) ==
  /\ pc[c] = "lt_join" /\ CanRun(c)
  /\ loc[c].joined = NumThreads
  /\ \E ts \in Timestamps, e \in MetaEnvs :
       Respond(c, Resp("load-test", 200,
                       [message |-> "Load test completed",
                        results |-> loc[c].results,
                        server_id |-> ServerId(e), timestamp |-> ts], NoBody))
  /\ UNCHANGED <<messages, created>>

\* ------------------------------------------------------------ specification
Next ==
  \/ \E c \in Clients : create_message_receive(c)
  \/ \E c \in Clients : create_message_read_len(c)
  \/ \E c \in Clients : create_message_append(c)
  \/ \E c \in Clients : get_messages_read_total(c)
  \/ \E c \in Clients : get_messages_return(c)
  \/ \E c \in Clients : root(c)
  \/ \E c \in Clients : health_check(c)
  \/ \E c \in Clients : aws_info(c)
  \/ \E c \in Clients : system_info(c)
  \/ \E c \in Clients : error_test(c)
  \/ \E c \in Clients : ping(c)
  \/ \E c \in Clients : unmatched_route(c)
  \/ \E c \in Clients : load_test_start(c)
  \/ \E c \in Clients : load_test_spawn(c)
  \/ \E c \in Clients, k \in Threads : load_test_thread(c, k)
  \/ \E c \in Clients : load_test_join(c)
  \/ \E c \in Clients : load_test_return(c)

Spec == Init /\ [][Next]_vars

\* ================================================================== claims
IsPrefix(s, t) == Len(s) <= Len(t) /\ \A i \in 1..Len(s) : s[i] = t[i]

\* A response was sent in this step.
Responded == lastResp'.tick # lastResp.tick

\* C1: the k-th create-message response carries id k, and a list-messages
\* response reports as total the number of creates answered so far and as
\* messages exactly the returned records, in response order.
C1_SequentialIds ==
  /\ \A i \in 1..Len(created) : created[i].id = i
  /\ lastResp.op = "list" =>
       /\ lastResp.body.total = Len(created)
       /\ lastResp.body.messages = created

C1_Witness ==
  /\ lastResp.op = "list"
  /\ Len(created) = 2
  /\ created[1].name # created[2].name

\* C2: create-message requests in flight together receive pairwise different
\* ids, and when none is in flight any more the store holds one record per
\* answered request.
C2_UniqueIds ==
  /\ \A i, j \in 1..Len(created) : i # j => created[i].id # created[j].id
  /\ \A i, j \in 1..Len(messages) : i # j => messages[i].id # messages[j].id
  /\ (\A c \in Clients : ~InCreate(c)) => Len(messages) = Len(created)

\* Two requests were accepted before either was answered, and both are
\* answered now.
C2_Witness ==
  /\ lastResp.op = "create" /\ lastResp.status = 200
  /\ Len(created) = 2
  /\ \A c \in Clients : ~InCreate(c)

\* C3: the record at position i of the store has id i, and every step leaves
\* the previous contents of the store as a prefix of the new contents.
C3_StoreInvariant ==
  /\ [](\A i \in 1..Len(messages) : messages[i].id = i)
  /\ [][IsPrefix(messages, messages')]_vars

C3_Witness == Len(messages) = 2 /\ messages[1].name # messages[2].name

\* C4: every response of the health operation is a success with status
\* "healthy", also when a host lookup inside get_system_info fails.
C4_HealthAlwaysHealthy ==
  lastResp.op = "health" =>
    /\ lastResp.status = 200
    /\ "status" \in DOMAIN lastResp.body
    /\ lastResp.body.status = "healthy"

FiveFields == {"instance_id", "availability_zone", "instance_type",
               "public_ipv4", "private_ipv4"}

SourceFails(e) == ~e.importOk \/ e.firstStatus # 200 \/ e.raisesAt \in 1..5

\* C5: get_instance_metadata gives the fallback dict when the source is
\* unreachable, the first answer is not 200 or any of the five fetches
\* raises, and the full five-field record otherwise; aws-info answers 200
\* with that value as ec2_metadata.
C5_MetadataFallback ==
  lastResp.op = "aws-info" =>
    /\ lastResp.status = 200
    /\ IF SourceFails(lastResp.request)
       THEN lastResp.body.ec2_metadata =
              [instance_id |-> "local-development", note |-> "Not running on EC2"]
       ELSE /\ DOMAIN lastResp.body.ec2_metadata = FiveFields
            /\ lastResp.body.ec2_metadata.instance_id = "i-0abc"

\* The third fetch raised after two had answered.
C5_Witness ==
  /\ lastResp.op = "aws-info"
  /\ lastResp.request.importOk /\ lastResp.request.firstStatus = 200
  /\ lastResp.request.raisesAt = 3

SumOfSquaresBelow(n) == ((n - 1) * n * (2 * n - 1)) \div 6

\* C6: a load-test handler that has left its spawn loop has started 4
\* threads, every thread it has joined has ended, and its response holds
\* exactly 4 results, each the sum of i*i for i in [0, LoopIterations).
C6_LoadTestJoinsAll ==
  /\ \A c \in Clients :
       pc[c] = "lt_join" =>
         /\ Cardinality({k \in Threads : loc[c].th[k] # "new"}) = 4
         /\ \A k \in 1..loc[c].joined : loc[c].th[k] = "done"
         /\ Len(loc[c].results) >= loc[c].joined
  /\ lastResp.op = "load-test" =>
       /\ Len(lastResp.body.results) = 4
       /\ \A i \in 1..Len(lastResp.body.results) :
            lastResp.body.results[i].result = SumOfSquaresBelow(LoopIterations)

C6_Witness ==
  /\ lastResp.op = "load-test"
  /\ lastResp.body.results[1].duration # lastResp.body.results[4].duration

\* C7: every error-test response has status 500 and carries the test-error
\* message, with the handlers registered for 404 and 500 in place.
C7_ErrorTest500 ==
  lastResp.op = "error-test" =>
    /\ lastResp.status = 500
    /\ "detail" \in DOMAIN lastResp.body
    /\ lastResp.body.detail = "This is a test error for monitoring"

C7_Witness == lastResp.op = "error-test" /\ 500 \in RegisteredHandlers

\* C8: a step changes the store only when it is create-message's append, and
\* a response of any other operation leaves the store as it was.
C8_OnlyCreateMutates ==
  [][/\ messages' # messages =>
          /\ \E c \in Clients : pc[c] = "create_append" /\ pc'[c] = "idle"
          /\ lastResp'.op = "create" /\ lastResp'.status = 200
     /\ (Responded /\ lastResp'.op # "create") => messages' = messages]_vars

C8_Witness == lastResp.op = "load-test" /\ Len(messages) = 2

Malformed(b) ==
  \E f \in {"name", "email", "message"} : b[f] \in {Missing, NonString}

\* C9: a create-message request with a missing or non-string field is
\* answered 4xx and leaves store and ids untouched; a valid one is answered
\* with id = (count before the request's append) + 1.
C9_MalformedRejected ==
  [][(Responded /\ lastResp'.op = "create") =>
       IF Malformed(lastResp'.request)
       THEN /\ lastResp'.status \in 400..499
            /\ messages' = messages
            /\ created' = created
       ELSE /\ lastResp'.status = 200
            /\ lastResp'.body.data.id = Len(messages) + 1
            /\ Len(messages') = Len(messages) + 1]_vars

C9_Witness ==
  /\ lastResp.op = "create" /\ lastResp.status = 422
  /\ lastResp.request.email = Missing
  /\ Len(messages) = 1

\* C10: a list-messages response holds the store as it was at one moment of
\* the request: its messages are a prefix of the store made of whole
\* records, and its total is the length of that sequence.
C10_ListSnapshot ==
  lastResp.op = "list" =>
    /\ lastResp.body.total = Len(lastResp.body.messages)
    /\ IsPrefix(lastResp.body.messages, messages)
    /\ \A i \in 1..Len(lastResp.body.messages) :
         /\ lastResp.body.messages[i].id = i
         /\ ValidBody(lastResp.body.messages[i])

\* A create request was accepted and waiting while the list was answered.
C10_Witness ==
  /\ lastResp.op = "list"
  /\ lastResp.body.total = 1
  /\ \E c \in Clients : pc[c] = "create_ready"

====
